---------------------------- MODULE Spec2Model ----------------------------
(***************************************************************************)
(* Damasen: floor generation (src/damasen/floor.py), the path and          *)
(* visibility algorithms (src/damasen/finder.py) and the view manager      *)
(* (src/damasen/current.py).                                               *)
(*                                                                         *)
(* Points handed to compute_mst and dijkstra are <<x, y>> pairs, as in     *)
(* floor.py line 147; grid cells are <<y, x>> pairs, as numpy indexes      *)
(* them.  Sequences are 1-based here and 0-based in the source; the        *)
(* order of the elements is the same.                                      *)
(***************************************************************************)
EXTENDS Integers, Sequences, FiniteSets, TLC

VARIABLES
    args,           \* inputs of the pure function under check
    ret,            \* its result, Pending before the call
    pc,             \* where build_from_templates is, then "built" or "failed"
    mapping,        \* Floor.mapping: code -> terrain
    reversed_mapping, \* Floor.reversed_mapping: terrain -> code
    map,            \* Floor.map: the floor grid
    todo,           \* build_floor_map: the instances still to place
    occupied,       \* build_floor_map: the occupied cells
    placed,         \* build_floor_map: <<y, x, t_height, t_width>> of each placement
    all_entrances,  \* build_floor_map: the entrances, as <<x, y>>
    connections,    \* build_floor_map: the edges still to carve
    carved,         \* build_floor_map: the cells carved so far
    player_cell,    \* Current.player_cell: Nothing or the player's <<y, x>>
    floor_cells,    \* Current.floor_cells: position -> glyph
    floor_clouds,   \* Current.floor_clouds: position -> glyph
    display_mask,   \* Current.display_mask: Nothing or <<the set of its true cells>>
    los_mask,       \* Current.los_mask: Nothing or <<the set of its true cells>>
    memory,         \* Current.memory: Nothing or <<cell -> glyph>>
    display_map,    \* Current.display_map: the text, one character at a time
    raised          \* the exception the last call raised, or None

pureVars == <<args, ret>>
floorVars == <<pc, mapping, reversed_mapping, map, todo, occupied, placed,
               all_entrances, connections, carved>>
viewVars == <<player_cell, floor_cells, floor_clouds, display_mask, los_mask,
              memory, display_map>>
vars == <<args, ret, pc, mapping, reversed_mapping, map, todo, occupied, placed,
          all_entrances, connections, carved, player_cell, floor_cells,
          floor_clouds, display_mask, los_mask, memory, display_map, raised>>

\* ret is <<>> before the call and <<result>> after it
Pending == <<>>

Result == ret[1]

(***************************************************************************)
(* Bounds of the checked inputs.                                           *)
(***************************************************************************)
MstMaxX == 1        \* compute_mst: x of a point is in 0..MstMaxX
MstMaxY == 1        \* compute_mst: y of a point is in 0..MstMaxY
MaxPoints == 4      \* compute_mst: at most this many entrances
PathRows == 3       \* dijkstra alone: rows of the grid
PathCols == 6       \* dijkstra alone: columns of the grid
FovRows == 8        \* compute_fov alone: rows of the grid
FovCols == 9        \* compute_fov alone: columns of the grid
FloorRows == 5      \* the floor: rows of Floor.size
FloorCols == 8      \* the floor: columns of Floor.size
DistScale == 1000   \* distances are kept in 1/DistScale units
SqrtTableSize == 200 \* squared distances with a tabulated square root

Range(s) == {s[i] : i \in DOMAIN s}

Abs(n) == IF n < 0 THEN -n ELSE n

(***************************************************************************)
(* finder.py: distance.  The float ((dx^2 + dy^2) ** 0.5) is kept as the   *)
(* integer floor(DistScale * sqrt(dx^2 + dy^2)).  For the squared          *)
(* distances that occur (< 2000) two distances are equal, or ordered,      *)
(* exactly when the floats are.                                            *)
(***************************************************************************)
RECURSIVE SqrtSearch(_, _, _)
SqrtSearch(n, lo, hi) ==
    IF lo >= hi THEN lo
    ELSE LET mid == (lo + hi + 1) \div 2
         IN  IF mid * mid <= n THEN SqrtSearch(n, mid, hi)
                               ELSE SqrtSearch(n, lo, mid - 1)

\* floor(DistScale * sqrt(d2)), tabulated once for d2 in 0..SqrtTableSize
RECURSIVE SqrtRange(_, _)
SqrtRange(lo, hi) ==
    IF lo = hi THEN <<SqrtSearch(lo * DistScale * DistScale, 0, 46340)>>
    ELSE SqrtRange(lo, (lo + hi) \div 2) \o SqrtRange((lo + hi) \div 2 + 1, hi)

SqrtTable == SqrtRange(0, SqrtTableSize)

ScaledSqrt(d2) ==
    IF d2 <= SqrtTableSize THEN SqrtTable[d2 + 1]
    ELSE SqrtSearch(d2 * DistScale * DistScale, 0, 46340)

distance(p1, p2) ==
    ScaledSqrt((p1[1] - p2[1]) * (p1[1] - p2[1]) + (p1[2] - p2[2]) * (p1[2] - p2[2]))

(***************************************************************************)
(* finder.py: compute_mst.  An edge of the graph is <<dist, i, j>>.        *)
(***************************************************************************)
EdgeLess(e, f) ==
    \/ e[1] < f[1]
    \/ e[1] = f[1] /\ e[2] < f[2]
    \/ e[1] = f[1] /\ e[2] = f[2] /\ e[3] < f[3]

\* graph.append((dist, i, j)) for itertools.combinations(enumerate(entrances), 2)
CompleteGraph(entrances) ==
    {<<distance(entrances[e[1]], entrances[e[2]]), e[1], e[2]>> :
        e \in {q \in (DOMAIN entrances) \X (DOMAIN entrances) : q[1] < q[2]}}

RECURSIVE SortEdges(_)
SortEdges(S) ==
    IF S = {} THEN <<>>
    ELSE LET m == CHOOSE e \in S : \A f \in S \ {e} : EdgeLess(e, f)
         IN  <<m>> \o SortEdges(S \ {m})

\* a forgotten graph.sort(): the edges stay in enumeration order (i, then j)
RECURSIVE EnumEdges(_)
EnumEdges(S) ==
    IF S = {} THEN <<>>
    ELSE LET m == CHOOSE e \in S : \A f \in S \ {e} :
                      e[2] < f[2] \/ (e[2] = f[2] /\ e[3] < f[3])
         IN  <<m>> \o EnumEdges(S \ {m})

SortedGraphUnsorted(entrances) == EnumEdges(CompleteGraph(entrances))

\* graph.sort()
SortedGraph(entrances) == SortEdges(CompleteGraph(entrances))

RECURSIVE find(_, _)
find(parent, n) == IF parent[n] /= n THEN find(parent, parent[n]) ELSE n

\* a union that re-parents the node instead of the root of its set
unionNode(parent, n1, n2) == [parent EXCEPT ![n1] = find(parent, n2)]

union(parent, n1, n2) == [parent EXCEPT ![find(parent, n1)] = find(parent, n2)]

RECURSIVE Kruskal(_, _, _, _, _)
Kruskal(entrances, graph, k, parent, mst) ==
    IF k > Len(graph) THEN mst
    ELSE LET i == graph[k][2]
             j == graph[k][3]
         IN  IF find(parent, i) /= find(parent, j)
             THEN Kruskal(entrances, graph, k + 1, union(parent, i, j),
                          Append(mst, <<entrances[i], entrances[j]>>))
             ELSE Kruskal(entrances, graph, k + 1, parent, mst)

compute_mst(entrances) ==
    Kruskal(entrances, SortedGraph(entrances), 1,
            [i \in DOMAIN entrances |-> i], <<>>)

(***************************************************************************)
(* finder.py: the float costs of dijkstra.  A cost is a sum of 1 and 1.4   *)
(* in IEEE double arithmetic, and which of two equal-length paths the      *)
(* search keeps depends on the rounding of those sums.  A cost is kept     *)
(* exactly, as <<t, e>> for the double t/10 + e * 2^-52 / 10: the double   *)
(* nearest to 1.4 is 1.4 - 0.4 * 2^-52, that is <<14, -4>>.                *)
(***************************************************************************)
ZeroCost == <<0, 0>>
StraightCost == <<10, 0>>
DiagonalCost == <<14, -4>>

RECURSIVE Pow2(_)
Pow2(k) == IF k = 0 THEN 1 ELSE 2 * Pow2(k - 1)

\* 2^n mod 10, for n >= 1
Pow2Mod10(n) ==
    CASE n % 4 = 0 -> 6
      [] n % 4 = 1 -> 2
      [] n % 4 = 2 -> 4
      [] OTHER -> 8

\* the k with 2^k <= t/10 + e * 2^-52 / 10 < 2^(k+1), for a value >= 1
RECURSIVE Binade(_, _, _)
Binade(t, e, k) ==
    IF t < 10 * Pow2(k + 1) \/ (t = 10 * Pow2(k + 1) /\ e < 0) THEN k
    ELSE Binade(t, e, k + 1)

\* c + w rounded to the nearest double, ties to even
FloatAdd(c, w) ==
    IF c = ZeroCost THEN w
    ELSE LET t == c[1] + w[1]
             e == c[2] + w[2]
             k == Binade(t, e, 0)
             ulp == 10 * Pow2(k)
             r == (Pow2(k) * (((t % 10) * Pow2Mod10(52 - k)) % 10) + e) % ulp
             r2 == (Pow2(k + 1) * (((t % 10) * Pow2Mod10(51 - k)) % 10) + e)
                       % (2 * ulp)
         IN  IF 2 * r < ulp \/ (2 * r = ulp /\ r2 = r)
             THEN <<t, e - r>>
             ELSE <<t, e - r + ulp>>

CostLess(a, b) == a[1] < b[1] \/ (a[1] = b[1] /\ a[2] < b[2])

(***************************************************************************)
(* finder.py: dijkstra.  shape is grid.shape, <<rows, cols>>; start, end   *)
(* and the points of the path are <<x, y>>.                                *)
(***************************************************************************)
None == "None"

directions ==
    << <<0, 1>>, <<0, -1>>, <<1, 0>>, <<-1, 0>>,
       <<1, 1>>, <<-1, -1>>, <<1, -1>>, <<-1, 1>> >>

\* bounds check with rows and columns exchanged
InGridSwapped(shape, neighbor) ==
    /\ 0 <= neighbor[1] /\ neighbor[1] < shape[1]
    /\ 0 <= neighbor[2] /\ neighbor[2] < shape[2]

\* 0 <= neighbor[0] < cols and 0 <= neighbor[1] < rows
InGrid(shape, neighbor) ==
    /\ 0 <= neighbor[1] /\ neighbor[1] < shape[2]
    /\ 0 <= neighbor[2] /\ neighbor[2] < shape[1]

StepCost(d) == IF Abs(d[1]) + Abs(d[2]) = 1 THEN StraightCost ELSE DiagonalCost

\* heap order of the entries <<cost, point>>: tuple comparison
EntryLess(a, b) ==
    \/ CostLess(a[1], b[1])
    \/ a[1] = b[1] /\ a[2][1] < b[2][1]
    \/ a[1] = b[1] /\ a[2][1] = b[2][1] /\ a[2][2] < b[2][2]

\* for dx, dy in directions: relax the neighbours of current
RECURSIVE Relax(_, _, _, _, _)
Relax(shape, current_cost, current, k, st) ==
    IF k > Len(directions) THEN st
    ELSE LET neighbor == <<current[1] + directions[k][1],
                           current[2] + directions[k][2]>>
             new_cost == FloatAdd(current_cost, StepCost(directions[k]))
         IN  IF /\ InGrid(shape, neighbor)
                /\ \/ neighbor \notin DOMAIN st.costs
                   \/ CostLess(new_cost, st.costs[neighbor])
             THEN Relax(shape, current_cost, current, k + 1,
                        [costs |-> [q \in DOMAIN st.costs \cup {neighbor} |->
                                       IF q = neighbor THEN new_cost
                                       ELSE st.costs[q]],
                         pq |-> st.pq \cup {<<new_cost, neighbor>>},
                         came_from |->
                             [q \in DOMAIN st.came_from \cup {neighbor} |->
                                 IF q = neighbor THEN current
                                 ELSE st.came_from[q]]])
             ELSE Relax(shape, current_cost, current, k + 1, st)

\* while pq: pop the least entry, stop at end, else relax
RECURSIVE Search(_, _, _)
Search(shape, end, st) ==
    IF st.pq = {} THEN st
    ELSE LET top == CHOOSE a \in st.pq : \A b \in st.pq \ {a} : EntryLess(a, b)
             rest == [st EXCEPT !.pq = st.pq \ {top}]
         IN  IF top[2] = end THEN rest
             ELSE Search(shape, end, Relax(shape, top[1], top[2], 1, rest))

\* path.append(current); current = came_from.get(current, None)
RECURSIVE WalkBack(_, _, _)
WalkBack(came_from, current, path) ==
    IF current = None THEN path
    ELSE WalkBack(came_from,
                  IF current \in DOMAIN came_from THEN came_from[current]
                  ELSE None,
                  <<current>> \o path)

dijkstra(shape, start, end) ==
    LET st == Search(shape, end,
                     [costs |-> [q \in {start} |-> ZeroCost],
                      pq |-> {<<ZeroCost, start>>},
                      came_from |-> [q \in {start} |-> None]])
    IN  IF end \notin DOMAIN st.came_from THEN <<>>
        ELSE WalkBack(st.came_from, end, <<>>)

(***************************************************************************)
(* finder.py: recursive_shadowcast and compute_fov.  An array is a record  *)
(* [shape |-> <<rows, cols>>, at |-> [<<y, x>> -> code]]; the mask fov is  *)
(* the set of the cells <<y, x>> that are True.  A slope is the exact      *)
(* fraction <<numerator, denominator>>, denominator > 0: the slopes that   *)
(* occur are quotients of half-integers, and two of them compare as their  *)
(* float quotients do.                                                     *)
(***************************************************************************)
SlopeLess(a, b) == a[1] * b[2] < b[1] * a[2]

InArray(array, Y, X) ==
    /\ 0 <= Y /\ Y < array.shape[1]
    /\ 0 <= X /\ X < array.shape[2]

\* a test of the blocking tiles that never finds one
IsBlockingNever(ctx, Y, X) == FALSE

\* 0 <= Y < shape[0] and 0 <= X < shape[1] and map_array[Y, X] in blocking_tiles
IsBlocking(ctx, Y, X) ==
    /\ InArray(ctx.map_array, Y, X)
    /\ ctx.map_array.at[<<Y, X>>] \in ctx.blocking_tiles

\* if (dx * dx + dy * dy) < radius_squared: fov[Y, X] = True (when in bounds)
Light(ctx, fov, dx, dy, Y, X) ==
    IF /\ dx * dx + dy * dy < ctx.radius * ctx.radius
       /\ InArray(ctx.map_array, Y, X)
    THEN fov \cup {<<Y, X>>}
    ELSE fov

RECURSIVE recursive_shadowcast(_, _, _, _, _)
RECURSIVE ScanRows(_, _, _, _, _)
RECURSIVE ScanCells(_, _, _, _, _)

\* while dx <= 0: dx += 1; ...  (st: fov, start, new_start, blocked)
ScanCells(ctx, st, i, dx0, end) ==
    IF dx0 > 0 THEN st
    ELSE LET dx == dx0 + 1
             dy == -i
             X == ctx.cx + dx * ctx.xx + dy * ctx.xy
             Y == ctx.cy + dx * ctx.yx + dy * ctx.yy
             \* (dx - 0.5) / (dy + 0.5) and (dx + 0.5) / (dy - 0.5)
             left_slope == <<1 - 2 * dx, 2 * i - 1>>
             right_slope == <<-2 * dx - 1, 2 * i + 1>>
             lit == Light(ctx, st.fov, dx, dy, Y, X)
         IN  IF SlopeLess(st.start, right_slope)
             THEN ScanCells(ctx, st, i, dx, end)
             ELSE IF SlopeLess(left_slope, end)
             THEN st
             ELSE IF st.blocked
             THEN IF IsBlocking(ctx, Y, X)
                  THEN ScanCells(ctx, [st EXCEPT !.fov = lit,
                                                 !.new_start = right_slope],
                                 i, dx, end)
                  ELSE ScanCells(ctx, [st EXCEPT !.fov = lit,
                                                 !.blocked = FALSE,
                                                 !.start = st.new_start],
                                 i, dx, end)
             ELSE IF IsBlocking(ctx, Y, X) /\ i < ctx.radius
             THEN ScanCells(ctx,
                            [fov |-> recursive_shadowcast(ctx, lit, i + 1,
                                                          st.start, left_slope),
                             start |-> st.start,
                             new_start |-> right_slope,
                             blocked |-> TRUE],
                            i, dx, end)
             ELSE ScanCells(ctx, [st EXCEPT !.fov = lit], i, dx, end)

\* for i in range(row, radius + 1): scan the row; if blocked: break
ScanRows(ctx, fov, i, start, end) ==
    IF i > ctx.radius THEN fov
    ELSE LET st == ScanCells(ctx,
                             [fov |-> fov, start |-> start,
                              new_start |-> start, blocked |-> FALSE],
                             i, -i - 1, end)
         IN  IF st.blocked THEN st.fov
             ELSE ScanRows(ctx, st.fov, i + 1, st.start, end)

recursive_shadowcast(ctx, fov, row, start, end) ==
    IF SlopeLess(start, end) THEN fov
    ELSE ScanRows(ctx, fov, row, start, end)

\* <<xx, xy, yx, yy>> of the eight octants
multipliers ==
    << <<1, 0, 0, 1>>, <<0, 1, 1, 0>>, <<-1, 0, 0, 1>>, <<0, -1, 1, 0>>,
       <<-1, 0, 0, -1>>, <<0, -1, -1, 0>>, <<1, 0, 0, -1>>, <<0, 1, -1, 0>> >>

RECURSIVE Octants(_, _, _, _, _, _, _)
Octants(map_array, player_x, player_y, radius, blocking_tiles, k, fov) ==
    IF k > Len(multipliers) THEN fov
    ELSE Octants(map_array, player_x, player_y, radius, blocking_tiles, k + 1,
                 recursive_shadowcast(
                     [map_array |-> map_array, cx |-> player_x, cy |-> player_y,
                      radius |-> radius, blocking_tiles |-> blocking_tiles,
                      xx |-> multipliers[k][1], xy |-> multipliers[k][2],
                      yx |-> multipliers[k][3], yy |-> multipliers[k][4]],
                     fov, 1, <<1, 1>>, <<0, 1>>))

compute_fov(map_array, player_x, player_y, radius, blocking_tiles) ==
    Octants(map_array, player_x, player_y, radius, blocking_tiles, 1,
            IF InArray(map_array, player_y, player_x)
            THEN {<<player_y, player_x>>}
            ELSE {})

(***************************************************************************)
(* floor.py: Floor.  The terrains are named by their class; a template is  *)
(* a record of the class attributes of template.py, its map a sequence of  *)
(* rows of characters and its symbols the (ordered) dictionary as a        *)
(* sequence of <<character, terrain>>.                                     *)
(***************************************************************************)
\* Python's None where the other values are tuples, and a value that is there
Nothing == <<>>
Some(value) == <<value>>

Wall == "Wall"
Empty == "Empty"
Entrance == "Entrance"
Unknown == "Unknown"

\* self.mapping = {0: Wall}
WallCode == 0

STANDARD_SYMBOLS ==
    << <<"#", Wall>>, <<".", Empty>>, <<"+", Entrance>>, <<" ", Unknown>> >>

\* the floor's size and its template catalog (class attributes)
size == <<FloorRows, FloorCols>>

templates ==
    << [map |-> << <<"+", ".", "+">>,
                   <<"#", "#", "#">>,
                   <<"#", "#", "#">> >>,
        symbols |-> STANDARD_SYMBOLS,
        min_on_floor |-> 0, max_on_floor |-> 2,
        min_entrances |-> 1, max_entrances |-> 1,
        no_entrance_tile |-> Wall],
       [map |-> << <<"#", "+", "#">>,
                   <<"+", ".", "#">>,
                   <<"#", "#", "#">> >>,
        symbols |-> STANDARD_SYMBOLS,
        min_on_floor |-> 1, max_on_floor |-> 1,
        min_entrances |-> 1, max_entrances |-> 2,
        no_entrance_tile |-> Wall] >>

CellsOf(shape) == (0 .. shape[1] - 1) \X (0 .. shape[2] - 1)

\* np.full(shape, value)
Full(shape, value) == [shape |-> shape, at |-> [c \in CellsOf(shape) |-> value]]

\* dtype=np.int8: the value kept in a signed byte
Int8(n) == ((n + 128) % 256) - 128

\* the largest terrain number build_mapping gives, and the largest an int8 holds
MaxCode == 255
Int8Max == 127

\* a build_mapping that gives a new number to every symbol, seen or not
AddSymbolAgain(symbol, m) ==
    IF m.raised /= None THEN m
    ELSE IF Len(m.mapping) > MaxCode
    THEN [m EXCEPT !.raised = "ValueError"]
    ELSE [m EXCEPT !.mapping = Append(m.mapping, symbol[2])]

\* one turn of "for symbol, terrain in template.symbols.items()"; nothing
\* more is done once the ValueError is raised
AddSymbol(symbol, m) ==
    LET terrain == symbol[2]
        index == Len(m.mapping)
    IN  IF m.raised /= None THEN m
        ELSE IF terrain \in Range(m.mapping) THEN m
        ELSE IF index > MaxCode
        THEN [m EXCEPT !.raised = "ValueError"]
        ELSE [m EXCEPT !.mapping = Append(m.mapping, terrain)]

\* the turns for symbols[lo .. hi] in order, the range taken by halves: the
\* mapping after the first half is what the second half starts from
RECURSIVE AddRange(_, _, _, _)
AddRange(symbols, lo, hi, m) ==
    IF lo > hi THEN m
    ELSE IF lo = hi THEN AddSymbol(symbols[lo], m)
    ELSE LET mid == (lo + hi) \div 2
         IN  CHOOSE done \in {AddRange(symbols, mid + 1, hi, half) :
                                 half \in {AddRange(symbols, lo, mid, m)}} : TRUE

\* build_mapping: one code per terrain, in the order first seen
AddSymbols(symbols, k, m) == AddRange(symbols, k, Len(symbols), m)

RECURSIVE AddTemplates(_, _, _)
AddTemplates(catalog, k, m) ==
    IF k > Len(catalog) THEN m
    ELSE AddTemplates(catalog, k + 1, AddSymbols(catalog[k].symbols, 1, m))

\* the mapping as the list of its terrains: terrain number c is at c + 1
build_mapping(catalog) ==
    AddTemplates(catalog, 1, [mapping |-> <<Wall>>, raised |-> None])

MappingOf(list) == [c \in 0 .. Len(list) - 1 |-> list[c + 1]]

ReversedOf(list) ==
    [t \in Range(list) |-> (CHOOSE k \in DOMAIN list : list[k] = t) - 1]

\* build_floor_template: the template's map as an array of terrain numbers
build_floor_template(template, terrains) ==
    LET rows == template.map
        symbol(ch) == (CHOOSE k \in DOMAIN template.symbols :
                           template.symbols[k][1] = ch)
    IN  [shape |-> <<Len(rows), Len(rows[1])>>,
         at |-> [c \in CellsOf(<<Len(rows), Len(rows[1])>>) |->
                    Int8(terrains[template.symbols[
                             symbol(rows[c[1] + 1][c[2] + 1])][2]])]]

\* get_floor_templates_to_use: counts[k] instances of template k, the list
\* then sorted by -min_on_floor (a stable sort)
RECURSIVE Repeat(_, _)
Repeat(x, n) == IF n = 0 THEN <<>> ELSE <<x>> \o Repeat(x, n - 1)

RECURSIVE Expand(_, _, _)
Expand(floor_templates, counts, k) ==
    IF k > Len(floor_templates) THEN <<>>
    ELSE Repeat(floor_templates[k], counts[k])
             \o Expand(floor_templates, counts, k + 1)

RECURSIVE StableSort(_, _)
StableSort(list, catalog) ==
    IF list = <<>> THEN <<>>
    ELSE LET top == CHOOSE k \in DOMAIN list :
                 /\ \A j \in DOMAIN list :
                        catalog[list[j].template].min_on_floor
                            <= catalog[list[k].template].min_on_floor
                 /\ \A j \in 1 .. k - 1 :
                        catalog[list[j].template].min_on_floor
                            < catalog[list[k].template].min_on_floor
         IN  <<list[top]>>
                 \o StableSort([j \in 1 .. Len(list) - 1 |->
                                   IF j < top THEN list[j] ELSE list[j + 1]],
                               catalog)

get_floor_templates_to_use(floor_templates, counts, catalog) ==
    StableSort(Expand(floor_templates, counts, 1), catalog)

\* an occupied grid that starts all free
BorderCellsFree(shape) == {}

\* occupied[0, :] = occupied[-1, :] = occupied[:, 0] = occupied[:, -1] = True
BorderCells(shape) ==
    {c \in CellsOf(shape) :
        c[1] = 0 \/ c[1] = shape[1] - 1 \/ c[2] = 0 \/ c[2] = shape[2] - 1}

Footprint(y, x, shape) == (y .. y + shape[1] - 1) \X (x .. x + shape[2] - 1)

\* np.argwhere(~np.any(sliding_window_view(occupied, map.shape), axis=(2, 3)))
ValidPositions(occ, floor_shape, shape) ==
    {p \in (0 .. floor_shape[1] - shape[1]) \X (0 .. floor_shape[2] - shape[2]) :
        Footprint(p[1], p[2], shape) \cap occ = {}}

\* a placement that leaves the occupied cells as they were
MarkOccupiedNot(occ, y, x, shape) == occ

\* occupied[y:y + t_height, x:x + t_width] = True
MarkOccupied(occ, y, x, shape) == occ \cup Footprint(y, x, shape)

\* self.map[y:y + t_height, x:x + t_width] = map
Stamp(grid, y, x, array) ==
    [grid EXCEPT !.at = [c \in CellsOf(grid.shape) |->
        IF c \in Footprint(y, x, array.shape)
        THEN array.at[<<c[1] - y, c[2] - x>>]
        ELSE grid.at[c]]]

MinOf(S) == CHOOSE n \in S : \A m \in S : n <= m
MaxOf(S) == CHOOSE n \in S : \A m \in S : n >= m

\* np.argwhere(array == value): the cells in row-major order
RowMajor(cells) ==
    LET cols == MaxOf({c[2] : c \in cells}) + 1
        last == MaxOf({c[1] : c \in cells}) * cols + cols
        InCells(c) == c \in cells
    IN  IF cells = {} THEN <<>>
        ELSE SelectSeq([k \in 1 .. last |-> <<(k - 1) \div cols, (k - 1) % cols>>],
                       InCells)

ArgWhere(array, value) ==
    RowMajor({c \in CellsOf(array.shape) : array.at[c] = value})

\* place_template_entrances: every outcome the random removals allow, each
\* [raised, map, entrances]
place_template_entrances(array, template, terrains) ==
    LET entrance == terrains[Entrance]
        entrances == ArgWhere(array, entrance)
        keep(removed) ==
            RowMajor({entrances[k] : k \in DOMAIN entrances \ removed})
    IN  IF entrances = <<>>
        THEN {[raised |-> "ValueError", map |-> array, entrances |-> <<>>]}
        ELSE IF Len(entrances) < template.min_entrances
        THEN {[raised |-> "NameError", map |-> array, entrances |-> <<>>]}
        ELSE IF Len(entrances) > template.max_entrances
        THEN {[raised |-> None,
               map |-> [array EXCEPT !.at = [c \in CellsOf(array.shape) |->
                           IF \E k \in removed : entrances[k] = c
                           THEN Int8(terrains[template.no_entrance_tile])
                           ELSE array.at[c]]],
               entrances |-> keep(removed)] :
                   removed \in {r \in SUBSET DOMAIN entrances :
                       Cardinality(r) = Len(entrances) - template.max_entrances}}
        ELSE {[raised |-> None, map |-> array, entrances |-> entrances]}

\* the carving that leaves out the last point of the path
CarveButLast(grid, path, empty) ==
    [grid EXCEPT !.at = [c \in CellsOf(grid.shape) |->
        IF \E k \in 1 .. Len(path) - 1 : path[k] = <<c[2], c[1]>>
        THEN Int8(empty) ELSE grid.at[c]]]

\* for x, y in path: self.map[y, x] = empty
Carve(grid, path, empty) ==
    [grid EXCEPT !.at = [c \in CellsOf(grid.shape) |->
        IF \E k \in DOMAIN path : path[k] = <<c[2], c[1]>>
        THEN Int8(empty) ELSE grid.at[c]]]

(***************************************************************************)
(* The floor and its view after construction (Floor.__init__,              *)
(* Current.__init__ as ui/game.py calls it), and build_from_templates: one *)
(* step up to the placement loop, one per placed instance, one for the     *)
(* connections and one per carved path.                                    *)
(***************************************************************************)
InitFloor ==
    /\ pc = "new"
    /\ map = Full(size, WallCode)
    /\ mapping = MappingOf(<<Wall>>)
    /\ reversed_mapping = ReversedOf(<<Wall>>)
    /\ todo = <<>>
    /\ occupied = {}
    /\ placed = <<>>
    /\ all_entrances = <<>>
    /\ connections = <<>>
    /\ carved = {}

InitCurrent ==
    /\ player_cell = Nothing
    /\ floor_cells = <<>>
    /\ floor_clouds = <<>>
    /\ display_map = <<>>
    /\ display_mask = Nothing
    /\ los_mask = Nothing
    /\ memory = Nothing
    /\ raised = None

Init ==
    /\ args = <<>>
    /\ ret = Pending
    /\ InitFloor
    /\ InitCurrent

\* random.randint(template.min_on_floor, template.max_on_floor), per template
InstanceCounts ==
    {counts \in [DOMAIN templates -> 0 .. FloorRows] :
        \A k \in DOMAIN templates :
            /\ counts[k] >= templates[k].min_on_floor
            /\ counts[k] <= templates[k].max_on_floor}

BuildFromTemplates ==
    /\ pc = "new"
    /\ LET m == build_mapping(templates)
       IN  IF m.raised /= None
           THEN /\ pc' = "failed"
                /\ raised' = m.raised
                /\ mapping' = MappingOf(m.mapping)
                /\ reversed_mapping' = ReversedOf(m.mapping)
                /\ UNCHANGED <<map, todo, occupied, placed, all_entrances,
                               connections, carved>>
           ELSE \E counts \in InstanceCounts :
                LET terrains == ReversedOf(m.mapping)
                    floor_templates ==
                        [k \in DOMAIN templates |->
                            [array |-> build_floor_template(templates[k], terrains),
                             template |-> k]]
                IN  /\ mapping' = MappingOf(m.mapping)
                    /\ reversed_mapping' = terrains
                    /\ map' = Full(size, WallCode)
                    /\ todo' = get_floor_templates_to_use(floor_templates,
                                                          counts, templates)
                    /\ occupied' = BorderCells(size)
                    /\ placed' = <<>>
                    /\ all_entrances' = <<>>
                    /\ pc' = "place"
                    /\ raised' = None
                    /\ UNCHANGED <<connections, carved>>
    /\ UNCHANGED <<args, ret>>
    /\ UNCHANGED viewVars

\* instances of a template that are one array: a write to one shows in all
InstancesShared(rest, template, array) ==
    [k \in DOMAIN rest |->
        IF rest[k].template = template
        THEN [rest[k] EXCEPT !.array = array]
        ELSE rest[k]]

\* map = np.array(map): each instance is an array of its own, so the writes
\* of place_template_entrances to one leave the instances still to place alone
Instances(rest, template, array) == rest

\* one turn of the loop "for map, template in templates"
PlaceTemplate ==
    /\ pc = "place"
    /\ todo /= <<>>
    /\ LET array == todo[1].array
           template == templates[todo[1].template]
           valid_positions == ValidPositions(occupied, map.shape, array.shape)
       IN  IF valid_positions = {}
           THEN /\ pc' = "failed"
                /\ raised' = "ValueError"
                /\ UNCHANGED <<map, todo, occupied, placed, all_entrances>>
           ELSE \E chosen_index \in valid_positions :
                \E out \in place_template_entrances(array, template,
                                                    reversed_mapping) :
                LET y == chosen_index[1]
                    x == chosen_index[2]
                IN  IF out.raised /= None
                    THEN /\ pc' = "failed"
                         /\ raised' = out.raised
                         /\ UNCHANGED <<map, todo, occupied, placed,
                                        all_entrances>>
                    ELSE /\ map' = Stamp(map, y, x, out.map)
                         /\ occupied' = MarkOccupied(occupied, y, x, array.shape)
                         /\ placed' = Append(placed,
                                <<y, x, array.shape[1], array.shape[2]>>)
                         /\ all_entrances' = all_entrances \o
                                [k \in DOMAIN out.entrances |->
                                    <<x + out.entrances[k][2],
                                      y + out.entrances[k][1]>>]
                         /\ todo' = Instances(Tail(todo), todo[1].template,
                                               out.map)
                         /\ UNCHANGED <<pc, raised>>
    /\ UNCHANGED <<args, ret, mapping, reversed_mapping, connections, carved>>
    /\ UNCHANGED viewVars

\* connections = compute_mst(all_entrances)
ConnectRooms ==
    /\ pc = "place"
    /\ todo = <<>>
    /\ connections' = compute_mst(all_entrances)
    /\ pc' = IF connections' = <<>> THEN "built" ELSE "carve"
    /\ UNCHANGED <<args, ret, mapping, reversed_mapping, map, todo, occupied,
                   placed, all_entrances, carved, raised>>
    /\ UNCHANGED viewVars

\* one turn of the loop "for start, end in connections"
CarvePath ==
    /\ pc = "carve"
    /\ connections /= <<>>
    /\ LET path == dijkstra(map.shape, connections[1][1], connections[1][2])
       IN  /\ map' = Carve(map, path, reversed_mapping[Empty])
           /\ carved' = carved \cup {<<path[k][2], path[k][1]>> : k \in DOMAIN path}
    /\ connections' = Tail(connections)
    /\ pc' = IF connections' = <<>> THEN "built" ELSE "carve"
    /\ UNCHANGED <<args, ret, mapping, reversed_mapping, todo, occupied, placed,
                   all_entrances, raised>>
    /\ UNCHANGED viewVars

(***************************************************************************)
(* current.py: Current.  The operations are called on the view of a built  *)
(* floor, as ui/game.py does.                                              *)
(***************************************************************************)
DisplayRadius == 14
FovRadius == 7
Blank == " "
Newline == "\n"
Directions == 0 .. 7

\* Terrain.display_character
display_character(terrain) ==
    CASE terrain = Wall -> "#"
      [] terrain = Empty -> "."
      [] terrain = Entrance -> "+"
      [] OTHER -> Blank

Dist2(c, d) == (c[1] - d[1]) * (c[1] - d[1]) + (c[2] - d[2]) * (c[2] - d[2])

CellsWith(grid, code) == {c \in CellsOf(grid.shape) : grid.at[c] = code}

\* a choice among all the empty tiles, near a wall or not
PlayerTilesAnyEmpty(grid, empty, wall) == CellsWith(grid, empty)

\* the tiles where randomly_place_player_cell may put the player
PlayerTiles(grid, empty, wall) ==
    LET valid_tiles == {c \in CellsWith(grid, empty) :
                           \A w \in CellsWith(grid, wall) : Dist2(c, w) >= 4}
    IN  IF valid_tiles /= {} THEN valid_tiles ELSE CellsWith(grid, empty)

\* a placement that does not look whether the player is placed already
randomly_place_player_cellAgain(current) ==
    IF current.floor = Nothing
    THEN {[raised |-> "ValueError", current |-> current]}
    ELSE LET floor == current.floor[1]
             tiles == PlayerTiles(floor.map, floor.reversed_mapping[Empty],
                                  floor.reversed_mapping[Wall])
         IN  IF tiles = {}
             THEN {[raised |-> "ValueError", current |-> current]}
             ELSE {[raised |-> None,
                    current |-> [current EXCEPT !.player_cell = tile]] :
                       tile \in tiles}

\* randomly_place_player_cell on a view: every outcome, each the exception
\* raised and the view left; np.random.choice raises ValueError on no tile
randomly_place_player_cell(current) ==
    IF current.floor = Nothing
    THEN {[raised |-> "ValueError", current |-> current]}
    ELSE IF current.player_cell /= Nothing
    THEN {[raised |-> "ValueError", current |-> current]}
    ELSE LET floor == current.floor[1]
             tiles == PlayerTiles(floor.map, floor.reversed_mapping[Empty],
                                  floor.reversed_mapping[Wall])
         IN  IF tiles = {}
             THEN {[raised |-> "ValueError", current |-> current]}
             ELSE {[raised |-> None,
                    current |-> [current EXCEPT !.player_cell = tile]] :
                       tile \in tiles}

\* the view is made, and its operations are called, once the floor is built
FloorReadyOrFailed == pc \in {"built", "failed"}

FloorReady == pc = "built"

RandomlyPlacePlayerCell ==
    /\ FloorReady
    /\ IF player_cell /= Nothing
       THEN /\ raised' = "ValueError"
            /\ UNCHANGED player_cell
       ELSE LET tiles == PlayerTiles(map, reversed_mapping[Empty],
                                     reversed_mapping[Wall])
            IN  IF tiles = {}
                THEN /\ raised' = "ValueError"
                     /\ UNCHANGED player_cell
                ELSE /\ raised' = None
                     /\ player_cell' \in tiles
    /\ UNCHANGED <<args, ret>>
    /\ UNCHANGED floorVars
    /\ UNCHANGED <<floor_cells, floor_clouds, display_mask, los_mask, memory,
                   display_map>>

\* a projection that takes the directions 0 and 4 for each other
project_coordsMirrored(shape, y, x, direction) ==
    LET coordinates ==
            CASE direction = 0 -> <<y, x - 1>>
              [] direction = 1 -> <<y + 1, x + 1>>
              [] direction = 2 -> <<y + 1, x>>
              [] direction = 3 -> <<y + 1, x - 1>>
              [] direction = 4 -> <<y, x + 1>>
              [] direction = 5 -> <<y - 1, x - 1>>
              [] direction = 6 -> <<y - 1, x>>
              [] direction = 7 -> <<y - 1, x + 1>>
              [] OTHER -> Nothing
    IN  IF coordinates = Nothing THEN Nothing
        ELSE IF /\ 0 <= coordinates[1] /\ coordinates[1] < shape[1]
                /\ 0 <= coordinates[2] /\ coordinates[2] < shape[2]
        THEN coordinates
        ELSE Nothing

\* project_coords: Nothing off the floor and for an unknown direction, which
\* raises ValueError
project_coords(shape, y, x, direction) ==
    LET coordinates ==
            CASE direction = 0 -> <<y, x + 1>>
              [] direction = 1 -> <<y + 1, x + 1>>
              [] direction = 2 -> <<y + 1, x>>
              [] direction = 3 -> <<y + 1, x - 1>>
              [] direction = 4 -> <<y, x - 1>>
              [] direction = 5 -> <<y - 1, x - 1>>
              [] direction = 6 -> <<y - 1, x>>
              [] direction = 7 -> <<y - 1, x + 1>>
              [] OTHER -> Nothing
    IN  IF coordinates = Nothing THEN Nothing
        ELSE IF /\ 0 <= coordinates[1] /\ coordinates[1] < shape[1]
                /\ 0 <= coordinates[2] /\ coordinates[2] < shape[2]
        THEN coordinates
        ELSE Nothing

\* a test of the target that lets the player onto any terrain
BlockedNever(grid, coordinates, empty) == FALSE

\* if self.floor.map[y, x] != self.floor.empty_tile
Blocked(grid, coordinates, empty) == grid.at[coordinates] /= empty

\* what move_player returns: there is no return statement on either path
returned(moved) == None

\* a match that lets every direction code through
ValidDirectionAny(direction) == TRUE

\* the match of project_coords: "case _" raises ValueError
ValidDirection(direction) == direction \in Directions

MovePlayerCall(direction) ==
    /\ FloorReady
    /\ IF player_cell = Nothing
       THEN /\ raised' = "AttributeError"
            /\ UNCHANGED player_cell
       ELSE LET coordinates == project_coords(map.shape, player_cell[1],
                                              player_cell[2], direction)
            IN  IF ~ValidDirection(direction)
                THEN /\ raised' = "ValueError"
                     /\ UNCHANGED player_cell
                ELSE /\ raised' = None
                     /\ player_cell' =
                            IF coordinates = Nothing THEN player_cell
                            ELSE IF Blocked(map, coordinates,
                                            reversed_mapping[Empty])
                            THEN player_cell
                            ELSE coordinates
    /\ UNCHANGED floorVars
    /\ UNCHANGED <<floor_cells, floor_clouds, display_mask, los_mask, memory,
                   display_map>>

MovePlayer(direction) ==
    /\ MovePlayerCall(direction)
    /\ UNCHANGED <<args, ret>>

\* a resolution that looks at the clouds before the other cells
display_tileCloudFirst(c, player, cells, clouds, grid, terrain_of) ==
    IF c = player THEN "@"
    ELSE IF c \in DOMAIN clouds THEN clouds[c]
    ELSE IF c \in DOMAIN cells THEN cells[c]
    ELSE display_character(terrain_of[grid.at[c]])

\* display_tile: player, then cell, then cloud, then terrain
display_tile(c, player, cells, clouds, grid, terrain_of) ==
    IF c = player THEN "@"
    ELSE IF c \in DOMAIN cells THEN cells[c]
    ELSE IF c \in DOMAIN clouds THEN clouds[c]
    ELSE display_character(terrain_of[grid.at[c]])

\* a memory that is made anew at every call
InitMemoryAlways(mem, shape) == [c \in CellsOf(shape) |-> Blank]

\* if self.memory is None: self.memory = np.full_like(self.floor.map, " ")
InitMemory(mem, shape) ==
    IF mem = Nothing THEN [c \in CellsOf(shape) |-> Blank] ELSE mem[1]

\* a[index] of numpy on an axis of n entries: IndexError out of -n .. n - 1
InRange(index, n) == -n <= index /\ index < n

NumpyIndex(index, n) == IF index < 0 THEN index + n ELSE index

\* the loop "for y, x in coords" of update_visible_map, from coords[k] on;
\* st is [memory, los, region, raised], tile[c] is display_tile(y, x)
RECURSIVE FillRegion(_, _, _, _, _, _)
FillRegion(coords, k, st, shape, corner, tile) ==
    IF k > Len(coords) \/ st.raised /= None THEN st
    ELSE LET c == coords[k]
             character == IF c \in st.los THEN tile[c] ELSE st.memory[c]
             row == NumpyIndex(c[1] - corner[1], shape[1])
             col == NumpyIndex(c[2] - corner[2], shape[2])
             mem == IF c \in st.los
                    THEN [st.memory EXCEPT ![c] = character]
                    ELSE st.memory
         IN  IF ~InRange(c[1] - corner[1], shape[1])
                \/ ~InRange(c[2] - corner[2], shape[2])
             THEN [st EXCEPT !.memory = mem, !.raised = "IndexError"]
             ELSE FillRegion(coords, k + 1,
                             [st EXCEPT !.memory = mem,
                                        !.region = [@ EXCEPT ![<<row, col>>] =
                                                        character]],
                             shape, corner, tile)

\* the rows of the region, each followed by a new line
RECURSIVE JoinRows(_, _, _)
JoinRows(region, shape, row) ==
    IF row >= shape[1] THEN <<>>
    ELSE [col \in 1 .. shape[2] |-> region[<<row, col - 1>>]]
             \o <<Newline>> \o JoinRows(region, shape, row + 1)

\* a text that keeps its last new line
RstripNothing(text) == text

\* str.rstrip("\n")
RECURSIVE Rstrip(_)
Rstrip(text) ==
    IF text /= <<>> /\ text[Len(text)] = Newline
    THEN Rstrip(SubSeq(text, 1, Len(text) - 1))
    ELSE text

\* update_visible_map: [memory, los, display_map, raised], los as it was given
update_visible_map(mask, los, mem, text, tile) ==
    LET coords == RowMajor(mask)
        min_y == MinOf({c[1] : c \in mask})
        min_x == MinOf({c[2] : c \in mask})
        max_y == MaxOf({c[1] : c \in mask})
        max_x == MaxOf({c[2] : c \in mask})
        shape == <<max_y - min_y, max_x - min_x>>
        st == FillRegion(coords, 1,
                         [memory |-> mem, los |-> los, raised |-> None,
                          region |-> [c \in CellsOf(shape) |-> Blank]],
                         shape, <<max_y, max_x>>, tile)
    IN  IF mask = {}
        THEN [memory |-> mem, los |-> los, display_map |-> <<>>, raised |-> None]
        ELSE IF st.raised /= None
        THEN [memory |-> st.memory, los |-> st.los, display_map |-> text,
              raised |-> st.raised]
        ELSE [memory |-> st.memory, los |-> st.los,
              display_map |-> Rstrip(JoinRows(st.region, shape, 0)),
              raised |-> None]

GenerateCall(all_seeing) ==
    /\ FloorReady
    /\ IF player_cell = Nothing
       THEN /\ display_mask' = IF display_mask = Nothing THEN Some({})
                                ELSE display_mask
            /\ los_mask' = IF los_mask = Nothing THEN Some({}) ELSE los_mask
            /\ memory' = Some(InitMemory(memory, map.shape))
            /\ raised' = "AttributeError"
            /\ UNCHANGED display_map
       ELSE LET mask == {c \in CellsOf(map.shape) :
                            Dist2(c, player_cell) <= DisplayRadius * DisplayRadius}
                blocks == {reversed_mapping[Wall]}
                los == IF all_seeing THEN CellsOf(map.shape)
                       ELSE compute_fov(map, player_cell[2], player_cell[1],
                                        FovRadius, blocks)
                tile == [c \in CellsOf(map.shape) |->
                            display_tile(c, player_cell, floor_cells,
                                         floor_clouds, map, mapping)]
            IN  \E out \in {update_visible_map(mask, los,
                                                InitMemory(memory, map.shape),
                                                display_map, tile)} :
                    /\ display_mask' = Some(mask)
                    /\ los_mask' = Some(out.los)
                    /\ memory' = Some(out.memory)
                    /\ display_map' = out.display_map
                    /\ raised' = out.raised
    /\ UNCHANGED floorVars
    /\ UNCHANGED <<player_cell, floor_cells, floor_clouds>>

Generate(all_seeing) ==
    /\ GenerateCall(all_seeing)
    /\ UNCHANGED <<args, ret>>

Next ==
    \/ BuildFromTemplates
    \/ PlaceTemplate
    \/ ConnectRooms
    \/ CarvePath
    \/ RandomlyPlacePlayerCell
    \/ \E direction \in Directions \cup {Cardinality(Directions)} :
           MovePlayer(direction)
    \/ \E all_seeing \in BOOLEAN : Generate(all_seeing)

Spec == Init /\ [][Next]_vars

Idle == InitFloor /\ InitCurrent

(***************************************************************************)
(* The calls a user of the view makes, with what each was given and what   *)
(* it left: the floor is built and the player placed, then generate and    *)
(* move_player are called and ret keeps one entry per call.  The calls     *)
(* made are a move or two, or generate, a move and generate again with the *)
(* same all_seeing.                                                        *)
(***************************************************************************)
ViewState == [player_cell |-> player_cell, map |-> map, memory |-> memory,
              display_map |-> display_map, raised |-> raised]

CallMovePlayer(direction) ==
    /\ Len(ret) <= 1
    /\ MovePlayerCall(direction)
    /\ ret' = Append(ret, [op |-> "move_player", arg |-> direction,
                           before |-> ViewState, after |-> ViewState',
                           returned |-> returned(player_cell' /= player_cell)])
    /\ UNCHANGED args

CallGenerate(all_seeing) ==
    /\ \/ ret = Pending
       \/ /\ Len(ret) = 2
          /\ ret[1].op = "generate"
          /\ ret[1].arg = all_seeing
    /\ GenerateCall(all_seeing)
    /\ ret' = Append(ret, [op |-> "generate", arg |-> all_seeing,
                           before |-> ViewState, after |-> ViewState',
                           returned |-> None])
    /\ UNCHANGED args

StartUp ==
    /\ ret = Pending
    /\ \/ BuildFromTemplates
       \/ PlaceTemplate
       \/ ConnectRooms
       \/ CarvePath
       \/ RandomlyPlacePlayerCell

\* the direction codes, and the nearest integers on either side of them
DirectionCodes == Directions \cup {-1, Cardinality(Directions)}

NextCalls ==
    \/ StartUp
    \/ \E direction \in DirectionCodes : CallMovePlayer(direction)
    \/ \E all_seeing \in BOOLEAN : CallGenerate(all_seeing)

SpecCalls == Init /\ [][NextCalls]_vars
(***************************************************************************)
(* Specification of the connectivity engine alone: any list of at most     *)
(* MaxPoints distinct points of the bounded grid.                          *)
(***************************************************************************)
MstPoints == (0 .. MstMaxX) \X (0 .. MstMaxY)

DistinctSeqs(S, n) ==
    {s \in [1 .. n -> S] : \A i, j \in 1 .. n : i /= j => s[i] /= s[j]}

InitMst ==
    /\ Idle
    /\ \E n \in 0 .. MaxPoints : \E s \in DistinctSeqs(MstPoints, n) :
           args = [entrances |-> s]
    /\ ret = Pending

CallComputeMst ==
    /\ ret = Pending
    /\ ret' = <<compute_mst(args.entrances)>>
    /\ UNCHANGED args
    /\ UNCHANGED floorVars
    /\ UNCHANGED viewVars
    /\ UNCHANGED raised

NextMst == CallComputeMst

SpecMst == InitMst /\ [][NextMst]_vars

(***************************************************************************)
(* Properties of compute_mst.                                              *)
(***************************************************************************)
\* the points joined to a point of S by a chain of edges (pairs of points)
RECURSIVE ReachVia(_, _)
ReachVia(edges, S) ==
    LET T == S \cup {e[2] : e \in {f \in edges : f[1] \in S}}
                \cup {e[1] : e \in {f \in edges : f[2] \in S}}
    IN  IF T = S THEN S ELSE ReachVia(edges, T)

Joins(edges, points) == \A p \in points : ReachVia(edges, {p}) = points

RECURSIVE Sum(_)
Sum(s) == IF s = <<>> THEN 0 ELSE s[1] + Sum(Tail(s))

\* total weight of a list of edges given as pairs of points
TreeWeight(mst) == Sum([k \in DOMAIN mst |-> distance(mst[k][1], mst[k][2])])

\* the spanning trees over the point indices 1..n, each a set of index pairs
IndexPairs(n) == {q \in (1 .. n) \X (1 .. n) : q[1] < q[2]}

SpanningTrees(n) ==
    {U \in SUBSET IndexPairs(n) :
        /\ Cardinality(U) = (IF n = 0 THEN 0 ELSE n - 1)
        /\ ReachVia(U, {1}) \cap (1 .. n) = 1 .. n}

\* tabulated once: <<n, the spanning trees over 1..n>>
SpanningTreeTable == {<<n, SpanningTrees(n)>> : n \in 0 .. MaxPoints}

AllSpanningTrees(n) == (CHOOSE p \in SpanningTreeTable : p[1] = n)[2]

RECURSIVE SetWeight(_, _)
SetWeight(entrances, U) ==
    IF U = {} THEN 0
    ELSE LET q == CHOOSE r \in U : TRUE
         IN  distance(entrances[q[1]], entrances[q[2]])
                 + SetWeight(entrances, U \ {q})

\* C3: compute_mst on N distinct points returns N-1 edges (none for N = 0 or
\* N = 1) and every point is reachable from every other through them.
C3_MstSpans ==
    ret /= Pending =>
        LET n == Len(args.entrances)
        IN  /\ Len(Result) = (IF n = 0 THEN 0 ELSE n - 1)
            /\ Range(Result) \subseteq Range(args.entrances) \X Range(args.entrances)
            /\ Joins(Range(Result), Range(args.entrances))

C3_Witness ==
    /\ ret /= Pending
    /\ Len(args.entrances) = 4
    /\ Len(Result) = 3
    /\ Joins(Range(Result), Range(args.entrances))

\* C4: no spanning tree over the same points weighs less than the tree
\* compute_mst returns.
C4_MstMinimal ==
    ret /= Pending =>
        \A U \in AllSpanningTrees(Len(args.entrances)) :
            TreeWeight(Result) <= SetWeight(args.entrances, U)

C4_Witness ==
    /\ ret /= Pending
    /\ Len(args.entrances) = 4
    /\ \E U \in AllSpanningTrees(4) :
           TreeWeight(Result) < SetWeight(args.entrances, U)

(***************************************************************************)
(* Specification of the grid pathfinder alone: every in-bounds start and   *)
(* end on a PathRows x PathCols grid.                                      *)
(***************************************************************************)
PathShape == <<PathRows, PathCols>>

PathPoints == (0 .. PathCols - 1) \X (0 .. PathRows - 1)

InitPath ==
    /\ Idle
    /\ \E start \in PathPoints, end \in PathPoints :
           args = [shape |-> PathShape, start |-> start, end |-> end]
    /\ ret = Pending

CallDijkstra ==
    /\ ret = Pending
    /\ ret' = <<dijkstra(args.shape, args.start, args.end)>>
    /\ UNCHANGED args
    /\ UNCHANGED floorVars
    /\ UNCHANGED viewVars
    /\ UNCHANGED raised

NextPath == CallDijkstra

SpecPath == InitPath /\ [][NextPath]_vars

(***************************************************************************)
(* Properties of dijkstra.  Path costs are exact here, in tenths: 10 for   *)
(* an axis-aligned step and 14 for a diagonal one.                         *)
(***************************************************************************)
Adjacent8(p, q) ==
    /\ p /= q
    /\ Abs(p[1] - q[1]) <= 1
    /\ Abs(p[2] - q[2]) <= 1

StepTenths(p, q) == IF Abs(p[1] - q[1]) + Abs(p[2] - q[2]) = 1 THEN 10 ELSE 14

PathTenths(path) ==
    Sum([k \in 1 .. Len(path) - 1 |-> StepTenths(path[k], path[k + 1])])

\* the least cost from start to every point of the grid, by relaxing every
\* pair of adjacent points until nothing changes
RECURSIVE LeastCosts(_, _)
LeastCosts(points, dist) ==
    LET better(q) ==
            {dist[p] + StepTenths(p, q) : p \in {r \in points : Adjacent8(r, q)}}
        next == [q \in points |->
                    IF \E c \in better(q) : c < dist[q]
                    THEN CHOOSE c \in better(q) : \A d \in better(q) : c <= d
                    ELSE dist[q]]
    IN  IF next = dist THEN dist ELSE LeastCosts(points, next)

LeastCost(shape, start, end) ==
    LET points == (0 .. shape[2] - 1) \X (0 .. shape[1] - 1)
    IN  LeastCosts(points, [q \in points |-> IF q = start THEN 0
                                         ELSE 14 * Cardinality(points)])[end]

\* C5: dijkstra returns a path from start to end (the single point start
\* when start = end) whose steps join 8-adjacent in-bounds cells and whose
\* cost is the least possible; on one row that cost is 1.0 per column.
C5_DijkstraShortest ==
    ret /= Pending =>
        /\ Len(Result) >= 1
        /\ Result[1] = args.start
        /\ Result[Len(Result)] = args.end
        /\ args.start = args.end => Result = <<args.start>> /\ PathTenths(Result) = 0
        /\ \A k \in DOMAIN Result :
               /\ 0 <= Result[k][1] /\ Result[k][1] < args.shape[2]
               /\ 0 <= Result[k][2] /\ Result[k][2] < args.shape[1]
        /\ \A k \in 1 .. Len(Result) - 1 : Adjacent8(Result[k], Result[k + 1])
        /\ PathTenths(Result) = LeastCost(args.shape, args.start, args.end)
        /\ args.start[2] = args.end[2] =>
               PathTenths(Result) = 10 * Abs(args.start[1] - args.end[1])

C5_Witness ==
    /\ ret /= Pending
    /\ args.start = <<0, 0>>
    /\ args.end = <<3, 1>>
    /\ Len(Result) = 4
    /\ PathTenths(Result) = 34

(***************************************************************************)
(* Specification of the visibility engine alone: a FovRows x FovCols grid  *)
(* of transparent cells (code 1) with no wall, or with one wall (code 0)   *)
(* at most two rows and two columns away from the origin, any origin, and  *)
(* the radii the properties name.                                          *)
(***************************************************************************)
FovCells == (0 .. FovRows - 1) \X (0 .. FovCols - 1)

FovRadii == {0, 1, 2, 3, 7}

GridWithWalls(walls) ==
    [shape |-> <<FovRows, FovCols>>,
     at |-> [c \in FovCells |-> IF c \in walls THEN WallCode ELSE WallCode + 1]]

InitFov ==
    /\ Idle
    /\ \E origin \in FovCells, radius \in FovRadii,
          walls \in {{}} \cup {{c} : c \in FovCells} :
           /\ \A w \in walls :
                  /\ w /= origin
                  /\ Abs(w[1] - origin[1]) <= 2
                  /\ Abs(w[2] - origin[2]) <= 2
           /\ args = [map_array |-> GridWithWalls(walls), walls |-> walls,
                      player_x |-> origin[2], player_y |-> origin[1],
                      radius |-> radius, blocking_tiles |-> {WallCode}]
    /\ ret = Pending

CallComputeFov ==
    /\ ret = Pending
    /\ ret' = <<compute_fov(args.map_array, args.player_x, args.player_y,
                            args.radius, args.blocking_tiles)>>
    /\ UNCHANGED args
    /\ UNCHANGED floorVars
    /\ UNCHANGED viewVars
    /\ UNCHANGED raised

NextFov == CallComputeFov

SpecFov == InitFov /\ [][NextFov]_vars

(***************************************************************************)
(* Properties of compute_fov.                                              *)
(***************************************************************************)
Dist2ToOrigin(c) ==
    (c[1] - args.player_y) * (c[1] - args.player_y)
        + (c[2] - args.player_x) * (c[2] - args.player_x)

\* C6: on an all-transparent grid and for R in {0, 1, 3, 7} the mask is true
\* exactly for the in-bounds cells at squared distance <= R * R from the
\* origin, the cells at distance exactly R included.
C6_OpenDiscInclusive ==
    (ret /= Pending /\ args.walls = {} /\ args.radius \in {0, 1, 3, 7}) =>
        Result = {c \in FovCells : Dist2ToOrigin(c) <= args.radius * args.radius}

\* the wall is orthogonally adjacent to the origin
WallNextToOrigin ==
    \E w \in args.walls :
        Abs(w[1] - args.player_y) + Abs(w[2] - args.player_x) = 1

\* the cells on the line from the origin through the wall, beyond the wall
BehindWall ==
    {c \in FovCells : \E w \in args.walls :
        LET sy == w[1] - args.player_y
            sx == w[2] - args.player_x
        IN  \E k \in 2 .. (FovRows + FovCols) :
                c = <<args.player_y + k * sy, args.player_x + k * sx>>}

\* C7: with a single opaque cell orthogonally adjacent to the origin, no cell
\* behind it on the same axis is visible, in each of the four directions.
C7_ShadowBehindWall ==
    (ret /= Pending /\ WallNextToOrigin) => Result \cap BehindWall = {}

C7_Witness ==
    /\ ret /= Pending
    /\ args.radius = 7
    /\ args.player_y = 4 /\ args.player_x = 4
    /\ args.walls = {<<3, 4>>}
    /\ <<3, 4>> \in Result
    /\ <<2, 3>> \in Result
    /\ BehindWall = {<<2, 4>>, <<1, 4>>, <<0, 4>>}
    /\ Result \cap BehindWall = {}

(***************************************************************************)
(* Properties of the built floor.                                          *)
(***************************************************************************)
EmptyCells == CellsWith(map, reversed_mapping[Empty])

Touching(c, d) == c /= d /\ Abs(c[1] - d[1]) <= 1 /\ Abs(c[2] - d[2]) <= 1

\* the cells of open joined to a cell of reached by a chain of touching cells
RECURSIVE Flood(_, _)
Flood(reached, open) ==
    LET more == {c \in open \ reached : \E d \in reached : Touching(c, d)}
    IN  IF more = {} THEN reached ELSE Flood(reached \cup more, open)

EntranceCells ==
    {<<all_entrances[k][2], all_entrances[k][1]>> : k \in DOMAIN all_entrances}

\* C1: after a successful build_from_templates every two entrance points of
\* all_entrances are joined by a chain of 8-adjacent cells that are all coded
\* as the empty terrain, and while the paths are carved no cell carved earlier
\* is coded as anything else than the empty terrain.
C1_EntrancesConnected ==
    /\ \A c \in carved : c \in EmptyCells
    /\ pc = "built" =>
           \A a \in EntranceCells : \A b \in EntranceCells \ {a} :
               a \in EmptyCells /\ b \in Flood({a}, EmptyCells)

C1_Witness ==
    /\ pc = "built"
    /\ raised = None
    /\ Len(all_entrances) = 3
    /\ \E a \in EntranceCells : \E b \in EntranceCells : ~Touching(a, b) /\ a /= b
    /\ EntranceCells \subseteq carved

PlacedFootprint(k) ==
    Footprint(placed[k][1], placed[k][2], <<placed[k][3], placed[k][4]>>)

\* C2: while the instances are placed, and after, the footprints of the placed
\* instances are pairwise disjoint and none holds a cell of the outer border
\* of the floor.
C2_FootprintsDisjoint ==
    /\ \A i \in DOMAIN placed : \A j \in DOMAIN placed :
           i < j => PlacedFootprint(i) \cap PlacedFootprint(j) = {}
    /\ \A i \in DOMAIN placed :
           PlacedFootprint(i) \cap BorderCells(map.shape) = {}

C2_Witness ==
    /\ pc = "place"
    /\ Len(placed) = 2
    /\ PlacedFootprint(1) /= {}
    /\ PlacedFootprint(2) /= {}

(***************************************************************************)
(* Properties of the view.                                                 *)
(***************************************************************************)
\* C8: once generate has written a non-blank glyph into memory[y, x], every
\* later generate in which (y, x) is not in the visibility mask leaves
\* memory[y, x] as it was, whatever move_player and generate calls came
\* between.
C8_MemoryMonotone ==
    [][memory /= Nothing =>
          \A c \in CellsOf(map.shape) :
              (memory[1][c] /= Blank /\ c \notin los_mask'[1])
                  => memory'[1][c] = memory[1][c]]_vars

C8_Witness ==
    /\ memory /= Nothing
    /\ player_cell /= Nothing
    /\ raised = None
    /\ \E c \in CellsOf(map.shape) :
           /\ memory[1][c] = "@"
           /\ c /= player_cell
           /\ c \notin los_mask[1]
           /\ player_cell \in los_mask[1]

\* the rows of a text: what stands between its new lines
RECURSIVE SplitLines(_, _, _)
SplitLines(text, k, line) ==
    IF k > Len(text) THEN <<line>>
    ELSE IF text[k] = Newline
    THEN <<line>> \o SplitLines(text, k + 1, <<>>)
    ELSE SplitLines(text, k + 1, Append(line, text[k]))

Rows(text) == SplitLines(text, 1, <<>>)

RenderedRectangle(text, mask, mem, player) ==
    LET min_y == MinOf({c[1] : c \in mask})
        min_x == MinOf({c[2] : c \in mask})
        max_y == MaxOf({c[1] : c \in mask})
        max_x == MaxOf({c[2] : c \in mask})
        rows == Rows(text)
    IN  /\ Len(rows) = max_y - min_y + 1
        /\ \A y \in min_y .. max_y :
               /\ Len(rows[y - min_y + 1]) = max_x - min_x + 1
               /\ \A x \in min_x .. max_x :
                      rows[y - min_y + 1][x - min_x + 1] =
                          IF <<y, x>> \notin mask THEN Blank
                          ELSE IF <<y, x>> = player THEN "@"
                          ELSE mem[<<y, x>>]

\* C9: after generate the text is the bounding rectangle of the display mask,
\* one character per cell: the cell (y, x) of the mask stands at row
\* y - min_y, column x - min_x, the player's glyph at the player's offset, and
\* a blank at every position of the rectangle outside the mask.  (A step that
\* changes the masks, the memory or the text is a generate.)
C9_RenderedRectangle ==
    [][(/\ <<display_mask, los_mask, memory, display_map>>'
               /= <<display_mask, los_mask, memory, display_map>>
        /\ player_cell' /= Nothing
        /\ raised' = None)
          => RenderedRectangle(display_map', display_mask'[1], memory'[1],
                               player_cell')]_vars

LastRow(text) == Rows(text)[Len(Rows(text))]

UnitSteps == << <<0, 1>>, <<1, 1>>, <<1, 0>>, <<1, -1>>,
               <<0, -1>>, <<-1, -1>>, <<-1, 0>>, <<-1, 1>> >>

Calls == IF ret = Pending THEN {} ELSE {ret[k] : k \in DOMAIN ret}

Moves == {e \in Calls : /\ e.op = "move_player"
                        /\ e.arg \in Directions
                        /\ e.before.player_cell /= Nothing}

Target(e) == <<e.before.player_cell[1] + UnitSteps[e.arg + 1][1],
               e.before.player_cell[2] + UnitSteps[e.arg + 1][2]>>

OnFloor(e) == Target(e) \in CellsOf(e.before.map.shape)

Open(e) == OnFloor(e) /\ e.before.map.at[Target(e)] = reversed_mapping[Empty]

Moved(e) == e.after.player_cell /= e.before.player_cell

\* C11: move_player(d), d in 0..7, puts the player on the cell one unit step
\* away exactly when that cell is on the floor and coded empty; otherwise the
\* position stays; the floor grid and the memory are the same after the call,
\* and nothing is raised.
C11_MoveEffect ==
    \A e \in Moves :
        /\ e.after.raised = None
        /\ e.after.map = e.before.map
        /\ e.after.memory = e.before.memory
        /\ Moved(e) <=> Open(e)
        /\ e.after.player_cell = IF Open(e) THEN Target(e)
                                 ELSE e.before.player_cell

C11_Witness ==
    /\ Len(ret) = 2
    /\ ret[1] \in Moves /\ Moved(ret[1])
    /\ ret[2] \in Moves /\ ~Moved(ret[2]) /\ ~Open(ret[2])
    /\ ret[2].before.memory = Nothing

\* C12: the value move_player returns for a move that changed the position
\* differs from the value it returns for a move that was rejected.
C12_ResultTellsOutcome ==
    \A e \in Moves : \A f \in Moves :
        (Moved(e) /\ ~Moved(f)) => e.returned /= f.returned

\* C13: generate, move_player toward a wall-coded cell, generate: the player
\* is where it was before the move and the second text equals the first.
C13_BumpKeepsText ==
    (/\ Len(ret) = 3
     /\ ret[2] \in Moves
     /\ OnFloor(ret[2])
     /\ ret[2].before.map.at[Target(ret[2])] = reversed_mapping[Wall])
    => /\ ret[3].after.player_cell = ret[2].before.player_cell
       /\ ret[3].after.display_map = ret[1].after.display_map

C13_Witness ==
    /\ Len(ret) = 3
    /\ ret[2] \in Moves
    /\ OnFloor(ret[2])
    /\ ret[2].before.map.at[Target(ret[2])] = reversed_mapping[Wall]
    /\ ret[1].after.raised = None
    /\ ret[3].after.raised = None
    /\ ret[3].after.display_map /= ""


(***************************************************************************)
(* display_tile on its own: a view over a row of TileCols tiles, with the  *)
(* player, other cells and clouds on any of them.                          *)
(***************************************************************************)
TileCols == 2
TileCells == CellsOf(<<1, TileCols>>)
CellGlyphs == {"g", "o"}
CloudGlyphs == {"~", "%"}

\* {cell.pos: cell for cell in floor_cells}, each cell kept as its glyph
PositionDicts(glyphs) ==
    UNION {[positions -> glyphs] : positions \in SUBSET TileCells}

TileMapping == <<Wall, Empty, Entrance>>

InitTile ==
    /\ Idle
    /\ \E c \in TileCells, player \in TileCells,
          cells \in PositionDicts(CellGlyphs),
          clouds \in PositionDicts(CloudGlyphs),
          code \in 0 .. Len(TileMapping) - 1 :
           args = [y |-> c[1], x |-> c[2], player_cell |-> player,
                   floor_cells |-> cells, floor_clouds |-> clouds,
                   map |-> Full(<<1, TileCols>>, code)]
    /\ ret = Pending

CallDisplayTile ==
    /\ ret = Pending
    /\ ret' = <<display_tile(<<args.y, args.x>>, args.player_cell,
                             args.floor_cells, args.floor_clouds, args.map,
                             MappingOf(TileMapping))>>
    /\ UNCHANGED args
    /\ UNCHANGED floorVars
    /\ UNCHANGED viewVars
    /\ UNCHANGED raised

NextTile == CallDisplayTile

SpecTile == InitTile /\ [][NextTile]_vars

TileAsked == <<args.y, args.x>>

\* C14: the glyph of a tile is the player's if the player stands on it, else
\* that of the other cell on it, else that of the cloud on it, else that of
\* its terrain, whatever else is on the same tile.
C14_GlyphPriority ==
    ret /= Pending =>
        /\ TileAsked = args.player_cell => Result = "@"
        /\ (/\ TileAsked /= args.player_cell
            /\ TileAsked \in DOMAIN args.floor_cells)
           => Result = args.floor_cells[TileAsked]
        /\ (/\ TileAsked /= args.player_cell
            /\ TileAsked \notin DOMAIN args.floor_cells
            /\ TileAsked \in DOMAIN args.floor_clouds)
           => Result = args.floor_clouds[TileAsked]
        /\ (/\ TileAsked /= args.player_cell
            /\ TileAsked \notin DOMAIN args.floor_cells
            /\ TileAsked \notin DOMAIN args.floor_clouds)
           => Result = display_character(TileMapping[args.map.at[TileAsked] + 1])

\* a cell and a cloud on the tile asked, the player elsewhere
C14_Witness ==
    /\ ret /= Pending
    /\ TileAsked /= args.player_cell
    /\ TileAsked \in DOMAIN args.floor_cells
    /\ TileAsked \in DOMAIN args.floor_clouds
    /\ Result \in CellGlyphs


(***************************************************************************)
(* place_template_entrances on its own: one instance of one row of         *)
(* EntranceCols codes, under every pair of entrance limits.                *)
(***************************************************************************)
EntranceCols == 4
EntranceLimits == 0 .. 2
EntranceMapping == <<Wall, Empty, Entrance>>

InitEntrances ==
    /\ Idle
    /\ \E at \in [CellsOf(<<1, EntranceCols>>) -> 0 .. Len(EntranceMapping) - 1],
          min \in EntranceLimits, max \in EntranceLimits,
          tile \in {Wall, Empty} :
           args = [map |-> [shape |-> <<1, EntranceCols>>, at |-> at],
                   template |-> [min_entrances |-> min, max_entrances |-> max,
                                 no_entrance_tile |-> tile],
                   terrains |-> ReversedOf(EntranceMapping)]
    /\ ret = Pending

CallPlaceTemplateEntrances ==
    /\ ret = Pending
    /\ \E out \in place_template_entrances(args.map, args.template,
                                            args.terrains) :
           ret' = <<out>>
    /\ UNCHANGED args
    /\ UNCHANGED floorVars
    /\ UNCHANGED viewVars
    /\ UNCHANGED raised

NextEntrances == CallPlaceTemplateEntrances

SpecEntrances == InitEntrances /\ [][NextEntrances]_vars

EntranceCount ==
    Cardinality(CellsWith(args.map, args.terrains[Entrance]))

\* C15: place_template_entrances raises its entrance-count error (the
\* ValueError "there should be at least ...") exactly when the instance has
\* fewer entrance-coded cells than min_entrances, and raises nothing when it
\* has at least min_entrances, none at all with min_entrances 0 included.
C15_EntranceCountError ==
    ret /= Pending =>
        /\ Result.raised = "ValueError"
               <=> EntranceCount < args.template.min_entrances
        /\ EntranceCount >= args.template.min_entrances
               => Result.raised = None


(***************************************************************************)
(* The reduction of the entrances of a placed instance, on the steps of    *)
(* the placement loop of Spec.                                             *)
(***************************************************************************)
Placing == pc = "place" /\ todo /= <<>> /\ Len(placed') = Len(placed) + 1

\* the cells of the instance being placed, as offsets in its array
InstanceEntrances == CellsWith(todo[1].array, reversed_mapping[Entrance])

\* the offsets whose floor cell holds the given code after the placement
StampedWith(code) ==
    LET last == placed'[Len(placed')]
    IN  {c \in CellsOf(todo[1].array.shape) :
            map'.at[<<last[1] + c[1], last[2] + c[2]>>] = code}

Appended ==
    {all_entrances'[k] : k \in Len(all_entrances) + 1 .. Len(all_entrances')}

\* C16: placing an instance with more entrance cells than max_entrances
\* recolors count - max_entrances of them to the no_entrance tile and keeps
\* max_entrances of them; the kept cells, translated by the offset of the
\* instance, are what is appended to all_entrances; the instances still to
\* place, those of the same template included, are unchanged.
C16_ReduceEntrances ==
    [][(/\ Placing
        /\ Cardinality(InstanceEntrances)
               > templates[todo[1].template].max_entrances)
       => LET template == templates[todo[1].template]
              last == placed'[Len(placed')]
              kept == StampedWith(reversed_mapping[Entrance])
              recolored == InstanceEntrances \ kept
          IN  /\ kept \subseteq InstanceEntrances
              /\ Cardinality(kept) = template.max_entrances
              /\ Cardinality(recolored)
                     = Cardinality(InstanceEntrances) - template.max_entrances
              /\ recolored \subseteq
                     StampedWith(reversed_mapping[template.no_entrance_tile])
              /\ \A c \in CellsOf(todo[1].array.shape) \ InstanceEntrances :
                     c \in StampedWith(todo[1].array.at[c])
              /\ Len(all_entrances') = Len(all_entrances) + Cardinality(kept)
              /\ Appended = {<<last[2] + c[2], last[1] + c[1]>> : c \in kept}
              /\ todo' = Tail(todo)]_vars

\* an instance was reduced to one entrance while another instance of the
\* same template, both entrances still on it, waits to be placed
C16_Witness ==
    /\ pc = "place"
    /\ Len(placed) = 2
    /\ Len(all_entrances) = 3
    /\ todo /= <<>>
    /\ templates[todo[1].template].max_entrances = 1
    /\ Cardinality(CellsWith(todo[1].array, reversed_mapping[Entrance])) = 2


(***************************************************************************)
(* build_mapping and the way of a terrain number through the int8 grid, on *)
(* catalogs of two templates: the first declares customs 1 .. kinds after  *)
(* the standard symbols, the second declares custom kinds again and `more` *)
(* new ones; the first template's map is one cell of one symbol, stamped   *)
(* on the floor and read back through the mapping.                         *)
(***************************************************************************)
Margin == 3

CustomSymbol(k) == <<ToString(k), "T" \o ToString(k)>>

CustomSymbols(first, last) ==
    [k \in 1 .. last - first + 1 |-> CustomSymbol(first + k - 1)]

\* Union(terrains) of terrain/union.py, kept as its repr
Union(terrains) == terrains[1] \o " | " \o terrains[2]

\* the line "? wall | empty" of a template's data file
UnionSymbol == <<"?", Union(<<Wall, Empty>>)>>

MappingCatalog(kinds, more, cell) ==
    << [map |-> << <<cell>> >>,
        symbols |-> STANDARD_SYMBOLS \o CustomSymbols(1, kinds)
                        \o (IF cell = UnionSymbol[1] THEN <<UnionSymbol>>
                            ELSE <<>>)],
       [map |-> << <<"#">> >>,
        symbols |-> STANDARD_SYMBOLS \o CustomSymbols(kinds, kinds + more)] >>

\* numbers of custom kinds that bring the last code near 0, Int8Max, MaxCode
KindCounts ==
    LET standard == Len(STANDARD_SYMBOLS) - 1
    IN  (1 .. Margin)
            \cup (Int8Max - standard - Margin .. Int8Max - standard + Margin)
            \cup (MaxCode - standard - Margin .. MaxCode - standard + Margin)

InitMapping ==
    /\ Idle
    /\ \E kinds \in KindCounts, more \in 0 .. 1 :
       \E cell \in {"#", ".", UnionSymbol[1]} \cup
                    {ToString(k) : k \in KindCounts \cap (1 .. kinds)} :
           args = [kinds |-> kinds, more |-> more, cell |-> cell]
    /\ ret = Pending

\* np.array(numbers, dtype=np.int8) with a number above Int8Max: stored
\* wrapped, below 0, by numpy 1.x; OverflowError from numpy 2.x
Int8Outcomes(array) ==
    {None} \cup {"OverflowError" : c \in {c \in CellsOf(array.shape) :
                                             array.at[c] < 0}}

\* terrain = self.floor.mapping[number]
Lookup(mapped, number) ==
    IF number \in DOMAIN mapped THEN [raised |-> None, terrain |-> mapped[number]]
    ELSE [raised |-> "KeyError", terrain |-> None]

\* return terrain.display_character: a Union has no such attribute
Glyph(terrain) ==
    IF terrain = UnionSymbol[2]
    THEN [raised |-> "AttributeError", character |-> None]
    ELSE [raised |-> None, character |-> display_character(terrain)]

CallBuildMapping ==
    /\ ret = Pending
    /\ \E catalog \in {MappingCatalog(args.kinds, args.more, args.cell)} :
       \E m \in {build_mapping(catalog)} :
           IF m.raised /= None
           THEN ret' = <<[mapping |-> m.mapping, raised |-> m.raised,
                          stored |-> Nothing, read |-> None,
                          glyph |-> Nothing]>>
           ELSE \E array \in {build_floor_template(catalog[1],
                                                    ReversedOf(m.mapping))} :
                \E outcome \in Int8Outcomes(array) :
                IF outcome /= None
                THEN ret' = <<[mapping |-> m.mapping, raised |-> outcome,
                               stored |-> Nothing, read |-> None,
                          glyph |-> Nothing]>>
                ELSE LET grid == Stamp(Full(<<1, 1>>, WallCode), 0, 0, array)
                         found == Lookup(MappingOf(m.mapping), grid.at[<<0, 0>>])
                     IN  ret' = <<[mapping |-> m.mapping, raised |-> found.raised,
                                   stored |-> <<grid.at[<<0, 0>>]>>,
                                   read |-> found.terrain,
                                   glyph |-> IF found.raised /= None THEN Nothing
                                             ELSE <<Glyph(found.terrain)>>]>>
    /\ UNCHANGED args
    /\ UNCHANGED floorVars
    /\ UNCHANGED viewVars
    /\ UNCHANGED raised

NextMapping == CallBuildMapping

SpecMapping == InitMapping /\ [][NextMapping]_vars

\* the kinds of the catalog in the order build_mapping meets them
KindsInOrder ==
    <<Wall, Empty, Entrance, Unknown>>
        \o [k \in 1 .. args.kinds |-> CustomSymbol(k)[2]]
        \o (IF args.cell = UnionSymbol[1] THEN <<UnionSymbol[2]>> ELSE <<>>)
        \o [k \in 1 .. args.more |-> CustomSymbol(args.kinds + k)[2]]

Declared ==
    CASE args.cell = "#" -> Wall
      [] args.cell = "." -> Empty
      [] args.cell = UnionSymbol[1] -> UnionSymbol[2]
      [] OTHER -> "T" \o args.cell

\* C17: whenever build_mapping succeeds, the number of the stamped cell's
\* terrain is stored in the grid and read back through the mapping as the
\* terrain the template declared, for every number from 0 to 255.
C17_CodesRoundTrip ==
    (ret /= Pending /\ Len(KindsInOrder) <= MaxCode + 1) =>
        /\ Result.raised = None
        /\ Result.read = Declared

\* C18: build_mapping gives 0 to the wall and the numbers 1, 2, ... to the
\* other kinds in the order first seen, one number per kind, mapping and
\* reversed_mapping being inverse; it raises its ValueError exactly when a
\* number above 255 would be needed.
C18_MappingCodes ==
    ret /= Pending =>
        LET needed == Len(KindsInOrder)
            mapped == MappingOf(Result.mapping)
            reversed == ReversedOf(Result.mapping)
        IN  /\ (Result.raised = "ValueError") <=> (needed - 1 > MaxCode)
            /\ mapped[0] = Wall
            /\ needed - 1 <= MaxCode => Result.mapping = KindsInOrder
            /\ \A c \in DOMAIN mapped : mapped[c] = KindsInOrder[c + 1]
            /\ \A c \in DOMAIN mapped : reversed[mapped[c]] = c
            /\ \A t \in DOMAIN reversed : mapped[reversed[t]] = t

\* the catalog needs every number up to 255, and gets them
C18_Witness ==
    /\ ret /= Pending
    /\ Len(KindsInOrder) = MaxCode + 1
    /\ args.more = 1
    /\ Result.raised /= "ValueError"
    /\ Len(Result.mapping) = MaxCode + 1


ViewUntouched ==
    /\ player_cell = Nothing
    /\ display_map = <<>>
    /\ display_mask = Nothing
    /\ los_mask = Nothing
    /\ memory = Nothing

\* C20: the step that fails raises and places and carves nothing; after it
\* nothing runs at all, so no later instance is placed and no path carved;
\* the operations of the view run only on a floor whose generation is
\* complete, and a floor that failed or is still being generated has a view
\* no operation has touched.
C20_FailureAborts ==
    [][/\ pc = "failed" => UNCHANGED vars
       /\ (pc /= "failed" /\ pc' = "failed")
              => /\ raised' /= None
                 /\ UNCHANGED <<map, placed, all_entrances, occupied>>
       /\ pc' = "failed" => (carved' = {} /\ connections' = <<>>)
       /\ pc' /= "built" => ViewUntouched'
       /\ viewVars' /= viewVars => (pc = "built" /\ pc' = "built")]_vars

\* the generation failed for lack of space after an instance was placed
C20_Witness ==
    /\ pc = "failed"
    /\ raised = "ValueError"
    /\ Len(placed) >= 1
    /\ todo /= <<>>
    /\ ViewUntouched


(***************************************************************************)
(* randomly_place_player_cell on its own: a view with no floor or with a   *)
(* floor of PlaceRows x PlaceCols tiles, wall on the border and wall or    *)
(* empty inside, the player placed already or not.                         *)
(***************************************************************************)
\* distance_from_walls >= 2; the floors are of the least height that has a
\* row that far from both border rows
FarEnough == 2
PlaceRows == 2 * FarEnough + 1
PlaceCols == 5
PlaceShape == <<PlaceRows, PlaceCols>>
PlaceMapping == <<Wall, Empty>>

PlaceFloors ==
    {[map |-> [shape |-> PlaceShape,
               at |-> [c \in CellsOf(PlaceShape) |->
                          IF c \in empties THEN ReversedOf(PlaceMapping)[Empty]
                          ELSE WallCode]],
      reversed_mapping |-> ReversedOf(PlaceMapping)] :
        empties \in SUBSET (CellsOf(PlaceShape) \ BorderCells(PlaceShape))}

\* where a player placed before the call stands: on the first empty tile of
\* the floor, or anywhere when the view has no floor
PlacedBefore(floor) ==
    IF floor = Nothing THEN {<<1, 1>>}
    ELSE LET empties == ArgWhere(floor[1].map, floor[1].reversed_mapping[Empty])
         IN  IF empties = <<>> THEN {} ELSE {empties[1]}

InitPlace ==
    /\ Idle
    /\ \E floor \in {Nothing} \cup {Some(f) : f \in PlaceFloors} :
       \E player \in {Nothing} \cup PlacedBefore(floor) :
           args = [floor |-> floor, player_cell |-> player,
                   floor_cells |-> <<>>, floor_clouds |-> <<>>,
                   display_map |-> IF player = Nothing THEN "" ELSE "@",
                   display_mask |-> Nothing,
                   los_mask |-> Nothing, memory |-> Nothing]
    /\ ret = Pending

CallRandomlyPlacePlayerCell ==
    /\ ret = Pending
    /\ \E out \in randomly_place_player_cell(args) : ret' = <<out>>
    /\ UNCHANGED args
    /\ UNCHANGED floorVars
    /\ UNCHANGED viewVars
    /\ UNCHANGED raised

NextPlace == CallRandomlyPlacePlayerCell

SpecPlace == InitPlace /\ [][NextPlace]_vars

\* the empty-coded tiles of the floor given, and those of them two tiles
\* or more away from every wall-coded tile
EmptyTiles ==
    {c \in CellsOf(PlaceShape) :
        args.floor[1].map.at[c] = args.floor[1].reversed_mapping[Empty]}

FarFromWalls ==
    {c \in EmptyTiles :
        \A w \in CellsOf(PlaceShape) :
            args.floor[1].map.at[w] = WallCode => Dist2(c, w) >= 2 * 2}

\* C21: a player placed by randomly_place_player_cell stands on an empty
\* tile at distance 2 or more from the nearest wall when the floor has such
\* a tile, and on some empty tile only when it has none.
C21_PlacedAwayFromWalls ==
    (/\ ret /= Pending
     /\ args.floor /= Nothing
     /\ args.player_cell = Nothing)
    => /\ Result.raised = None <=> EmptyTiles /= {}
       /\ Result.raised = None =>
              /\ Result.current.player_cell \in EmptyTiles
              /\ FarFromWalls /= {} =>
                     Result.current.player_cell \in FarFromWalls

\* placed on the one tile far from the walls, other empty tiles being there
C21_Witness ==
    /\ ret /= Pending
    /\ args.floor /= Nothing
    /\ args.player_cell = Nothing
    /\ Result.raised = None
    /\ FarFromWalls /= {}
    /\ FarFromWalls /= EmptyTiles
    /\ Result.current.player_cell \in FarFromWalls

\* C22: called without a floor, or with a player placed already,
\* randomly_place_player_cell raises and leaves the whole view as it was.
C22_PlacePrechecks ==
    (/\ ret /= Pending
     /\ args.floor = Nothing \/ args.player_cell /= Nothing)
    => /\ Result.raised = "ValueError"
       /\ Result.current = args

\* a second placement on a floor with empty tiles elsewhere
C22_Witness ==
    /\ ret /= Pending
    /\ args.floor /= Nothing
    /\ args.player_cell /= Nothing
    /\ EmptyTiles \ {args.player_cell} /= {}
    /\ Result.raised = "ValueError"
    /\ Result.current.player_cell = args.player_cell


\* the logged calls of move_player with a code that is no direction, on a
\* view whose player is placed
BadMoves == {e \in Calls : /\ e.op = "move_player"
                           /\ e.arg \notin 0 .. 7
                           /\ e.before.player_cell /= Nothing}

\* C23: move_player with a code outside 0..7 raises an error and leaves the
\* player where it was, whatever lies around it, and the map, the memory and
\* the text as they were.
C23_BadDirectionRejected ==
    \A e \in BadMoves :
        /\ e.after.raised = "ValueError"
        /\ e.after.player_cell = e.before.player_cell
        /\ e.after.map = e.before.map
        /\ e.after.memory = e.before.memory
        /\ e.after.display_map = e.before.display_map

\* the codes 8 and -1 given one after the other, with an empty tile to the
\* right of the player (where code 0 leads)
C23_Witness ==
    /\ Len(ret) = 2
    /\ ret[1] \in BadMoves
    /\ ret[2] \in BadMoves
    /\ ret[1].arg /= ret[2].arg
    /\ LET right == <<ret[1].before.player_cell[1],
                      ret[1].before.player_cell[2] + 1>>
       IN  ret[1].before.map.at[right] = reversed_mapping[Empty]


\* the outer rows and columns of the floor
OuterCells ==
    {c \in CellsOf(size) : \/ c[1] \in {0, FloorRows - 1}
                           \/ c[2] \in {0, FloorCols - 1}}

\* C24: on a built floor every tile of the outer rows and columns holds 0,
\* the wall: no instance covers one and no carved path goes through one.
C24_BorderIsWall ==
    pc = "built" =>
        /\ \A c \in OuterCells : map.at[c] = 0
        /\ \A k \in DOMAIN placed :
               PlacedFootprint(k) \cap OuterCells = {}
        /\ carved \cap OuterCells = {}

\* two instances placed and a path carved between them
C24_Witness ==
    /\ pc = "built"
    /\ Len(placed) = 2
    /\ Cardinality(carved) >= 3
    /\ \A c \in carved : map.at[c] = reversed_mapping[Empty]


\* C25: once placed, and through every sequence of move_player and generate,
\* the player stands on a tile of the floor that holds the empty code.
C25_PlayerOnEmptyTile ==
    player_cell /= Nothing =>
        /\ player_cell[1] \in 0 .. FloorRows - 1
        /\ player_cell[2] \in 0 .. FloorCols - 1
        /\ map.at[player_cell] = reversed_mapping[Empty]

\* the player has moved since the last generate: the memory shows it on the
\* tile it left
C25_Witness ==
    /\ player_cell /= Nothing
    /\ memory /= Nothing
    /\ raised = None
    /\ \E c \in CellsOf(size) : memory[1][c] = "@" /\ c /= player_cell

===========================================================================
